---- MODULE Spec2Model ----
(***************************************************************************)
(* State-machine model of the VALON agent (src/app.py): the VALONAgent     *)
(* object (task ledger, session registry, counters), the command router    *)
(* execute_command with its handlers, the Socket.IO handlers               *)
(* handle_connect / handle_disconnect / handle_execute_command and the     *)
(* HTTP handler api_execute.                                               *)
(*                                                                         *)
(* A handler invocation is a process held in a slot of `req'; its steps    *)
(* are the calls it makes on the shared agent (add_task, execute_command,  *)
(* the outcome assignment, emit, socketio.emit); each call is one step.    *)
(* Under Spec the handlers of submitted commands run one at a time, as     *)
(* under the cooperative scheduling of SOCKETIO_ASYNC_MODE = 'eventlet',   *)
(* where no handler yields; connects and disconnects fall between any two  *)
(* of their steps.                                                         *)
(*                                                                         *)
(* Strings the router inspects are sequences of one-character strings.     *)
(* A Python dict task object lives in `objs' (the heap, in allocation      *)
(* order); agent.tasks holds references (indices into objs), exactly as    *)
(* the list holds references to the dicts the handlers keep mutating.  An  *)
(* object that neither the list nor a running handler references any more  *)
(* is garbage: only the id it was given is remembered.                     *)
(*                                                                         *)
(* Wall-clock readings that no operation compares (a task's timestamp, an  *)
(* outcome's timestamp and uptime) are left out; connected_at is kept.     *)
(* A task's "user" entry, written once and read by nothing, is left out.   *)
(* An outbound message (emit, socketio.emit, an HTTP response) is the step *)
(* that sends it; its payload is read from the invocation that sends it.   *)
(***************************************************************************)
EXTENDS Integers, Sequences, FiniteSets, TLC

(***************************************************************************)
(* Bounds of the model.                                                    *)
(***************************************************************************)
LedgerCap == 2        \* the ledger capacity the model runs with (MAX_TASKS)
MaxAlloc == 3         \* task objects created in one behaviour
MaxConnects == 2      \* connect events in one behaviour
MaxExprLen == 3       \* characters after the head of a routed text
LiveAlloc == 5         \* task objects created in one behaviour of the fair scheduler

(***************************************************************************)
(* ProductionConfig                                                        *)
(***************************************************************************)
MAX_TASKS == LedgerCap
VERSION == "2.1.0"

Sids == {"s1", "s2"}          \* request.sid values
Addrs == {"ip1"}              \* request.remote_addr values
Slots == {1, 2, 3}            \* handler invocations that can be running
Threads == {1, 2}             \* the slots that are threads where two of them suffice
Serial == {1}                 \* one invocation at a time

(***************************************************************************)
(* Text                                                                    *)
(***************************************************************************)
S_status == <<"s","t","a","t","u","s">>
S_help == <<"h","e","l","p">>
S_system == <<"s","y","s","t","e","m",":">>
S_web == <<"w","e","b",":">>
S_calculate == <<"c","a","l","c","u","l","a","t","e",":">>
S_fetch == <<"f","e","t","c","h"," ">>
S_memory == <<"m","e","m","o","r","y">>
S_users == <<"u","s","e","r","s">>

\* str.startswith
StartsWith(s, p) == Len(s) >= Len(p) /\ SubSeq(s, 1, Len(p)) = p

\* str.strip(): leading and trailing whitespace removed
RECURSIVE LStrip(_)
LStrip(s) == IF s # <<>> /\ Head(s) = " " THEN LStrip(Tail(s)) ELSE s
RECURSIVE RStrip(_)
RStrip(s) == IF s # <<>> /\ s[Len(s)] = " " THEN RStrip(SubSeq(s, 1, Len(s) - 1)) ELSE s
Strip(s) == RStrip(LStrip(s))

\* command.split(":", 1)[1] for a command that contains ":"
RECURSIVE AfterColon(_)
AfterColon(s) == IF s = <<>> THEN <<>>
                 ELSE IF Head(s) = ":" THEN Tail(s) ELSE AfterColon(Tail(s))
HasColon(s) == \E i \in 1 .. Len(s) : s[i] = ":"

(***************************************************************************)
(* JSON values a client can send as data["command"], and payloads.         *)
(***************************************************************************)
JStr(s) == [t |-> "str", v |-> s]
JNum(n) == [t |-> "num", v |-> n]
\* Python truthiness, as in `if not command'
Truthy(c) == IF c.t = "str" THEN c.v # <<>> ELSE c.v # 0

CmdStatus == JStr(S_status)
CmdFetch == JStr(S_web \o S_fetch \o <<"u">>)
CmdNumber == JNum(7)
CmdEmpty == JStr(<<>>)
CmdGeneral == JStr(<<"g","o">>)
Commands == {CmdStatus, CmdFetch, CmdNumber, CmdEmpty}

\* data: a dict carrying a command, or a JSON value that is no dict
Dict(c) == [t |-> "dict", command |-> c]
NotDict == [t |-> "other"]
Payloads == {Dict(c) : c \in Commands} \cup {NotDict}

None == [t |-> "None"]

VARIABLES
    tasks,              \* agent.tasks: list of references into objs
    objs,               \* the task dicts ever created, in allocation order
    users,              \* agent.users: sid -> session record, None when absent
    active_sessions,    \* agent.active_sessions
    commands_executed,  \* agent.memory["commands_executed"]
    now,                \* datetime.now(), a logical clock
    req,                \* slot -> handler invocation (locals and position)
    broadcasts          \* number of socketio.emit('status_update') calls

vars == <<tasks, objs, users, active_sessions, commands_executed, now, req,
          broadcasts>>

Idle == [pc |-> "idle"]

\* VALONAgent.__init__
Init ==
    /\ tasks = <<>>
    /\ objs = <<>>
    /\ users = [s \in Sids |-> None]
    /\ active_sessions = 0
    /\ commands_executed = 0
    /\ now = 0
    /\ req = [s \in Slots |-> Idle]
    /\ broadcasts = 0

\* the agent object as the methods see it (self)
agent == [tasks |-> tasks, users |-> users, active_sessions |-> active_sessions,
          commands_executed |-> commands_executed]

\* `user_id in self.users', list(self.users.keys()), len(self.users)
Keys(u) == {s \in Sids : u[s] # None}
Registered == Keys(users)
UserCount == Cardinality(Registered)

\* add_task without the eviction
add_task_no_evict(task) ==
    LET task_obj == [id |-> Len(tasks) + 1,
                     command |-> task.command,
                     status |-> "pending",
                     result |-> None]
        ref == Len(objs) + 1
    IN  [tasks |-> Append(tasks, ref), objs |-> Append(objs, task_obj), ref |-> ref]

\* add_task with pop() in place of pop(0): the newest task is evicted
add_task_pop_last(task) ==
    LET held == IF Len(tasks) >= MAX_TASKS THEN SubSeq(tasks, 1, Len(tasks) - 1) ELSE tasks
        task_obj == [id |-> Len(held) + 1,
                     command |-> task.command,
                     status |-> "pending",
                     result |-> None]
        ref == Len(objs) + 1
    IN  [tasks |-> Append(held, ref), objs |-> Append(objs, task_obj), ref |-> ref]

(***************************************************************************)
(* VALONAgent.add_task.  `task' is the dict the caller passes; the result  *)
(* gives the list and heap after the call and the reference returned.      *)
(***************************************************************************)
add_task(task) ==
    LET held == IF Len(tasks) >= MAX_TASKS THEN Tail(tasks) ELSE tasks
        task_obj == [id |-> Len(held) + 1,
                     command |-> task.command,
                     status |-> "pending",
                     result |-> None]
        ref == Len(objs) + 1
    IN  [tasks |-> Append(held, ref), objs |-> Append(objs, task_obj), ref |-> ref]

(***************************************************************************)
(* The command handlers.  An outcome is a record; a string result is a     *)
(* record [str |-> ...] with the values formatted into it.  A handler      *)
(* that raises yields Raised(e); one that blocks in requests.get yields    *)
(* Blocked(url).                                                           *)
(***************************************************************************)
Str(s) == [str |-> s]
Fmt(f, a) == [str |-> f, args |-> a]
Raised(e) == [raised |-> TRUE, exc |-> e]
Blocked(url) == [blocked |-> TRUE, url |-> url]
IsRaised(d) == "raised" \in DOMAIN d
IsBlocked(d) == "blocked" \in DOMAIN d

_handle_system_command(self, command, user_id) ==
    LET sub_cmd == Strip(AfterColon(command))
    IN  IF sub_cmd = S_memory
        THEN [success |-> TRUE,
              result |-> [commands_executed |-> self.commands_executed,
                          active_users |-> Cardinality(Keys(self.users)),
                          active_sessions |-> self.active_sessions,
                          total_tasks |-> Len(self.tasks),
                          system_info |-> "VALON Agent v2.1.0 - Production"],
              type |-> "system"]
        ELSE IF sub_cmd = S_users
        THEN [success |-> TRUE,
              result |-> [total_users |-> Cardinality(Keys(self.users)),
                          active_sessions |-> self.active_sessions,
                          user_list |-> Keys(self.users)],
              type |-> "system"]
        ELSE [success |-> TRUE, result |-> Str("System command executed"), type |-> "system"]

\* up to the call of requests.get, where the handler blocks
_handle_web_command(self, command, user_id) ==
    LET sub_cmd == Strip(AfterColon(command))
    IN  IF sub_cmd = S_users
        THEN [success |-> TRUE,
              result |-> Fmt("Web users: {} active sessions", <<Cardinality(Keys(self.users))>>),
              type |-> "web"]
        ELSE IF StartsWith(sub_cmd, S_fetch)
        THEN Blocked(Strip(SubSeq(sub_cmd, 7, Len(sub_cmd))))
        ELSE [success |-> TRUE, result |-> Str("Web command executed"), type |-> "web"]

\* requests.get(url, timeout=10) has returned a response or raised
FetchOutcomes(url) ==
    { [success |-> TRUE, result |-> Fmt("Fetched {} - Status: {}", <<url, code>>), type |-> "web"]
        : code \in {200} }
    \cup
    { [success |-> FALSE, result |-> Fmt("Failed to fetch {}: {}", <<url, e>>), type |-> "web"]
        : e \in {"timeout"} }

_handle_status_command(self, command, user_id) ==
    [success |-> TRUE,
     result |-> [status |-> "Active",
                 commands_executed |-> self.commands_executed,
                 active_users |-> Cardinality(Keys(self.users)),
                 total_tasks |-> Len(self.tasks),
                 version |-> VERSION],
     type |-> "status"]

_handle_help_command(self, command, user_id) ==
    [success |-> TRUE, result |-> Str("VALON Agent Commands: ..."), type |-> "help"]

\* set('0123456789+-*/().\s'): the digits, the operators, and the two
\* characters of the escape "\s", a backslash and the letter s
allowed_chars == {"0","1","2","3","4","5","6","7","8","9",
                  "+","-","*","/","(",")",".","\\","s"}
Digits == {"0","1","2","3","4","5","6","7","8","9"}
DigitVal(c) == CHOOSE n \in 0 .. 9 : c = <<"0","1","2","3","4","5","6","7","8","9">>[n + 1]

(***************************************************************************)
(* eval(expression) for an expression of digits, "+", "-", the letter s    *)
(* and the backslash, which is what the model draws among the characters   *)
(* of allowed_chars: signed operands joined by + and -.  An operand is a   *)
(* decimal literal or a name (s followed by letters s and digits).  The    *)
(* whole text is compiled first, so a SyntaxError anywhere comes before    *)
(* the NameError of a name that is looked up.  A backslash outside a       *)
(* string literal, a literal running into a name (2s), a literal with a    *)
(* leading zero, a missing operand and the empty text are syntax errors.   *)
(* The messages stand for the text of any SyntaxError and any NameError.   *)
(***************************************************************************)
EvalChars == Digits \cup {"+", "-", "s", "\\"}

\* One pass over the text.  st is what was read last: "sign" (nothing, an
\* operator or a sign: an operand must follow), "int" (inside a literal),
\* "zero" (inside a literal of zeros), "name" (inside a name); sg and lit
\* are the sign and the value of the operand being read, acc the sum of the
\* operands before it, named whether a name was read.
RECURSIVE Scan(_, _, _, _, _, _)
Scan(s, st, sg, lit, acc, named) ==
    IF s = <<>>
    THEN IF st = "sign" THEN [kind |-> "syntax"]
         ELSE IF named THEN [kind |-> "name"]
         ELSE [kind |-> "int", value |-> acc + sg * lit]
    ELSE IF Head(s) \in {"+", "-"}
    THEN IF st = "sign"
         THEN Scan(Tail(s), "sign", IF Head(s) = "-" THEN 0 - sg ELSE sg, 0, acc, named)
         ELSE Scan(Tail(s), "sign", IF Head(s) = "-" THEN 0 - 1 ELSE 1, 0,
                   acc + sg * lit, named)
    ELSE IF Head(s) \in Digits
    THEN CASE st = "sign" ->
                Scan(Tail(s), IF Head(s) = "0" THEN "zero" ELSE "int", sg,
                     DigitVal(Head(s)), acc, named)
           [] st = "int" -> Scan(Tail(s), "int", sg, 10 * lit + DigitVal(Head(s)), acc, named)
           [] st = "zero" ->
                IF Head(s) = "0" THEN Scan(Tail(s), "zero", sg, 0, acc, named)
                ELSE [kind |-> "syntax"]
           [] st = "name" -> Scan(Tail(s), "name", sg, 0, acc, named)
    ELSE IF Head(s) = "s" /\ st \in {"sign", "name"}
    THEN Scan(Tail(s), "name", sg, 0, acc, TRUE)
    ELSE [kind |-> "syntax"]

\* what eval returns or raises, from the scan of its text
Evaluated(scan) ==
    IF scan.kind = "syntax" THEN [ok |-> FALSE, exc |-> Str("invalid syntax")]
    ELSE IF scan.kind = "name" THEN [ok |-> FALSE, exc |-> Str("name is not defined")]
    ELSE [ok |-> TRUE, value |-> scan.value]

PyEval(expression) ==
    CASE \A i \in 1 .. Len(expression) : expression[i] \in EvalChars ->
        Evaluated(Scan(expression, "sign", 1, 0, 0, FALSE))

_handle_calculate_command(self, command, user_id) ==
    IF HasColon(command)
    THEN LET expression == Strip(AfterColon(command))
         IN  IF \A i \in 1 .. Len(expression) : expression[i] \in allowed_chars
             THEN LET result == PyEval(expression)
                  IN  IF result.ok
                      THEN [success |-> TRUE,
                            result |-> Fmt("{} = {}", <<expression, result.value>>),
                            type |-> "calculation"]
                      ELSE [success |-> FALSE,
                            result |-> Fmt("Calculation error: {}", <<result.exc>>),
                            type |-> "calculation"]
             ELSE [success |-> FALSE,
                   result |-> Str("Invalid characters in expression"),
                   type |-> "calculation"]
    ELSE [success |-> FALSE, result |-> Str("No expression provided"), type |-> "calculation"]

\* the router with `status' and `help' compared for equality
route_exact_match(self, command, user_id) ==
    IF command.t # "str"
    THEN Raised("'int' object has no attribute 'startswith'")
    ELSE IF StartsWith(command.v, S_system) THEN _handle_system_command(self, command.v, user_id)
    ELSE IF StartsWith(command.v, S_web) THEN _handle_web_command(self, command.v, user_id)
    ELSE IF StartsWith(command.v, S_calculate) THEN _handle_calculate_command(self, command.v, user_id)
    ELSE IF command.v = S_status THEN _handle_status_command(self, command.v, user_id)
    ELSE IF command.v = S_help THEN _handle_help_command(self, command.v, user_id)
    ELSE [success |-> TRUE,
          result |-> Fmt("Command '{}' processed by VALON Agent", <<command.v>>),
          type |-> "general"]

\* the body of the try block of execute_command after the increment
route(self, command, user_id) ==
    IF command.t # "str"
    THEN Raised("'int' object has no attribute 'startswith'")
    ELSE IF StartsWith(command.v, S_system) THEN _handle_system_command(self, command.v, user_id)
    ELSE IF StartsWith(command.v, S_web) THEN _handle_web_command(self, command.v, user_id)
    ELSE IF StartsWith(command.v, S_calculate) THEN _handle_calculate_command(self, command.v, user_id)
    ELSE IF StartsWith(command.v, S_status) THEN _handle_status_command(self, command.v, user_id)
    ELSE IF StartsWith(command.v, S_help) THEN _handle_help_command(self, command.v, user_id)
    ELSE [success |-> TRUE,
          result |-> Fmt("Command '{}' processed by VALON Agent", <<command.v>>),
          type |-> "general"]

\* execute_command with the increment moved after the dispatch
execute_command_count_late(self, command, user_id) ==
    LET r == route(self, command, user_id)
    IN  [self |-> [self EXCEPT !.commands_executed = @ + 1],
         ret |-> IF IsRaised(r)
                 THEN [success |-> FALSE,
                       result |-> Fmt("Error processing command: {}", <<r.exc>>),
                       type |-> "error"]
                 ELSE r]

\* execute_command counting a command once it was routed without a fault
execute_command_count_routed(self, command, user_id) ==
    LET r == route([self EXCEPT !.commands_executed = @ + 1], command, user_id)
    IN  IF IsRaised(r)
        THEN [self |-> self,
              ret |-> [success |-> FALSE,
                       result |-> Fmt("Error processing command: {}", <<r.exc>>),
                       type |-> "error"]]
        ELSE [self |-> [self EXCEPT !.commands_executed = @ + 1], ret |-> r]

\* execute_command without its except clause: a fault leaves the call
execute_command_no_except(self, command, user_id) ==
    LET self1 == [self EXCEPT !.commands_executed = @ + 1]
    IN  [self |-> self1, ret |-> route(self1, command, user_id)]

(***************************************************************************)
(* VALONAgent.execute_command: the agent after the call and what the call  *)
(* returns (an outcome, or Blocked while requests.get is outstanding).     *)
(***************************************************************************)
execute_command(self, command, user_id) ==
    LET self1 == [self EXCEPT !.commands_executed = @ + 1]
        r == route(self1, command, user_id)
    IN  [self |-> self1,
         ret |-> IF IsRaised(r)
                 THEN [success |-> FALSE,
                       result |-> Fmt("Error processing command: {}", <<r.exc>>),
                       type |-> "error"]
                 ELSE r]

(***************************************************************************)
(* Socket.IO connect / disconnect                                          *)
(***************************************************************************)
\* the payload of a status_update, to one client or to "all"
StatusUpdate(to) ==
    [event |-> "status_update", to |-> to,
     status |-> "Active",
     user_count |-> UserCount,
     session_count |-> active_sessions,
     task_count |-> Len(tasks)]

\* the agent after the body of handle_connect: the session is registered
\* over whatever record the id had, and counted
registered(self, user_id, ip, at) ==
    [self EXCEPT !.users[user_id] = [connected_at |-> at, ip |-> ip, commands |-> 0],
                 !.active_sessions = @ + 1]

\* registers the session, counts it, and emits a status_update to the
\* connecting client alone
handle_connect(user_id, ip) ==
    /\ now < MaxConnects
    /\ now' = now + 1
    /\ LET self == registered(agent, user_id, ip, now')
       IN  /\ users' = self.users
           /\ active_sessions' = self.active_sessions
           /\ tasks' = self.tasks
           /\ commands_executed' = self.commands_executed
    /\ UNCHANGED <<objs, req, broadcasts>>

\* handle_disconnect with the session removed and the count left as it is
unregistered_keep_count(self, user_id) ==
    IF user_id \in Keys(self.users)
    THEN [self EXCEPT !.users[user_id] = None]
    ELSE self

\* handle_disconnect without the test `if user_id in agent.users'
unregistered_unguarded(self, user_id) ==
    [self EXCEPT !.users[user_id] = None,
                 !.active_sessions = IF @ - 1 > 0 THEN @ - 1 ELSE 0]

\* the agent after the body of handle_disconnect
unregistered(self, user_id) ==
    IF user_id \in Keys(self.users)
    THEN [self EXCEPT !.users[user_id] = None,
                      !.active_sessions = IF @ - 1 > 0 THEN @ - 1 ELSE 0]
    ELSE self

\* nothing is emitted
handle_disconnect(user_id) ==
    /\ LET self == unregistered(agent, user_id)
       IN  /\ users' = self.users
           /\ active_sessions' = self.active_sessions
           /\ tasks' = self.tasks
           /\ commands_executed' = self.commands_executed
    /\ UNCHANGED <<objs, now, req, broadcasts>>

(***************************************************************************)
(* Handler invocations                                                     *)
(***************************************************************************)
Invocation(path, user_id, data, pc, result) ==
    [pc |-> pc, path |-> path, user_id |-> user_id, data |-> data,
     task |-> 0, result |-> result]

\* a new invocation takes the first free slot
Free(slot) == req[slot] = Idle /\ \A k \in Slots : k < slot => req[k] # Idle
\* task objects created or about to be
Admitted == Len(objs) + Cardinality({k \in Slots : req[k].pc \in {"add", "pop", "make"}}) < MaxAlloc
At(slot, path, pc) == req[slot].pc = pc /\ req[slot].path = path

\* the objects still referenced by the list t or by a handler in rq
Live(t, rq) ==
    {t[i] : i \in 1 .. Len(t)} \cup {rq[k].task : k \in {j \in Slots : rq[j].pc # "idle"}}
RECURSIVE SweepFrom(_, _, _)
SweepFrom(o, live, r) ==
    IF r > Len(o) THEN o
    ELSE SweepFrom(IF r \in live THEN o ELSE [o EXCEPT ![r] = [id |-> o[r].id]], live, r + 1)
Sweep(o, t, rq) == SweepFrom(o, Live(t, rq), 1)

DataGetRaises == Raised("object has no attribute 'get'")

\* handle_execute_command with the session's counter bumped ahead of the
\* test `if not command'
hec_receive_count_first(slot, user_id, data) ==
    /\ Free(slot)
    /\ IF data.t # "dict"
       THEN /\ req' = [req EXCEPT ![slot] =
                        Invocation("socket", user_id, data, "except", DataGetRaises)]
            /\ UNCHANGED users
       ELSE /\ users' = IF user_id \in Keys(users)
                        THEN [users EXCEPT ![user_id].commands = @ + 1]
                        ELSE users
            /\ IF ~Truthy(data.command)
               THEN req' = [req EXCEPT ![slot] =
                        Invocation("socket", user_id, data, "reject",
                                   [success |-> FALSE, command |-> data.command,
                                    result |-> Str("No command provided")])]
               ELSE /\ Admitted
                    /\ req' = [req EXCEPT ![slot] = Invocation("socket", user_id, data, "add", None)]
    /\ UNCHANGED <<tasks, objs, active_sessions, commands_executed, now, broadcasts>>

\* handle_execute_command up to the call of add_task: data.get raises on
\* a payload that is no dict; an empty command is answered and dropped
hec_receive(slot, user_id, data) ==
    /\ Free(slot)
    /\ IF data.t # "dict"
       THEN /\ req' = [req EXCEPT ![slot] =
                        Invocation("socket", user_id, data, "except", DataGetRaises)]
            /\ UNCHANGED users
       ELSE IF ~Truthy(data.command)
       THEN /\ req' = [req EXCEPT ![slot] =
                        Invocation("socket", user_id, data, "reject",
                                   [success |-> FALSE, command |-> data.command,
                                    result |-> Str("No command provided")])]
            /\ UNCHANGED users
       ELSE /\ Admitted
            /\ users' = IF user_id \in Keys(users)
                        THEN [users EXCEPT ![user_id].commands = @ + 1]
                        ELSE users
            /\ req' = [req EXCEPT ![slot] = Invocation("socket", user_id, data, "add", None)]
    /\ UNCHANGED <<tasks, objs, active_sessions, commands_executed, now, broadcasts>>

\* api_execute up to the call of add_task
api_receive(slot, user_id, data) ==
    /\ Free(slot)
    /\ IF data.t # "dict"
       THEN req' = [req EXCEPT ![slot] =
                        Invocation("http", user_id, data, "except", DataGetRaises)]
       ELSE IF ~Truthy(data.command)
       THEN req' = [req EXCEPT ![slot] =
                        Invocation("http", user_id, data, "reject",
                                   [code |-> 400, success |-> FALSE,
                                    error |-> Str("No command provided")])]
       ELSE /\ Admitted
            /\ req' = [req EXCEPT ![slot] = Invocation("http", user_id, data, "add", None)]
    /\ UNCHANGED <<tasks, objs, users, active_sessions, commands_executed, now, broadcasts>>

\* the handler returns: its locals are gone
Return(slot) ==
    /\ req' = [req EXCEPT ![slot] = Idle]
    /\ objs' = Sweep(objs, tasks, req')

\* emit('command_result', {"success": False, ..., "result": "No command provided"}); return
hec_reject(slot) ==
    /\ At(slot, "socket", "reject")
    /\ Return(slot)
    /\ UNCHANGED <<tasks, users, active_sessions, commands_executed, now, broadcasts>>

\* return jsonify({"success": False, "error": "No command provided"}), 400
api_reject(slot) ==
    /\ At(slot, "http", "reject")
    /\ Return(slot)
    /\ UNCHANGED <<tasks, users, active_sessions, commands_executed, now, broadcasts>>

\* task = agent.add_task({"command": command, "user": user_id})
CallAddTask(slot) ==
    LET r == add_task([command |-> req[slot].data.command, user |-> req[slot].user_id])
    IN  /\ tasks' = r.tasks
        /\ req' = [req EXCEPT ![slot].pc = "exec", ![slot].task = r.ref]
        /\ objs' = Sweep(r.objs, tasks', req')
        /\ UNCHANGED <<users, active_sessions, commands_executed, now, broadcasts>>

hec_add_task(slot) == At(slot, "socket", "add") /\ CallAddTask(slot)
api_add_task(slot) == At(slot, "http", "add") /\ CallAddTask(slot)

\* result = agent.execute_command(command, user_id), to its return or to the
\* point where it blocks in requests.get; an exception leaving the call
\* enters the handler's except clause
CallExecuteCommand(slot) ==
    LET r == execute_command(agent, req[slot].data.command, req[slot].user_id)
    IN  /\ commands_executed' = r.self.commands_executed
        /\ req' = [req EXCEPT ![slot].result = r.ret,
                              ![slot].pc = IF IsRaised(r.ret) THEN "except"
                                           ELSE IF IsBlocked(r.ret) THEN "fetch"
                                           ELSE "record"]
        /\ UNCHANGED <<tasks, objs, users, active_sessions, now, broadcasts>>

\* handle_execute_command sending the result ahead of the outcome assignment
hec_execute_emit_first(slot) ==
    LET r == execute_command(agent, req[slot].data.command, req[slot].user_id)
    IN  /\ At(slot, "socket", "exec")
        /\ commands_executed' = r.self.commands_executed
        /\ req' = [req EXCEPT ![slot].result = r.ret,
                              ![slot].pc = IF IsBlocked(r.ret) THEN "fetch" ELSE "emit"]
        /\ UNCHANGED <<tasks, objs, users, active_sessions, now, broadcasts>>

hec_execute(slot) == At(slot, "socket", "exec") /\ CallExecuteCommand(slot)
api_execute_call(slot) == At(slot, "http", "exec") /\ CallExecuteCommand(slot)

\* requests.get returns or raises; _handle_web_command and execute_command return
fetch_return(slot) ==
    /\ req[slot].pc = "fetch"
    /\ \E o \in FetchOutcomes(req[slot].result.url) :
          req' = [req EXCEPT ![slot].result = o, ![slot].pc = "record"]
    /\ UNCHANGED <<tasks, objs, users, active_sessions, commands_executed, now, broadcasts>>

\* the outcome assignment with the result left unset
RecordOutcome_status_only(slot, next) ==
    /\ objs' = [objs EXCEPT ![req[slot].task].status =
                                IF req[slot].result.success THEN "completed" ELSE "failed"]
    /\ req' = [req EXCEPT ![slot].pc = next]
    /\ UNCHANGED <<tasks, users, active_sessions, commands_executed, now, broadcasts>>

\* the outcome assigned to the newest task of the ledger, agent.tasks[-1],
\* in place of the task the handler got from add_task
RecordOutcome_last_task(slot, next) ==
    LET result == req[slot].result
        task == tasks[Len(tasks)]
    IN  /\ objs' = [objs EXCEPT ![task].status =
                                    IF result.success THEN "completed" ELSE "failed",
                                ![task].result = result]
        /\ req' = [req EXCEPT ![slot].pc = next]
        /\ UNCHANGED <<tasks, users, active_sessions, commands_executed, now, broadcasts>>

\* task["status"] = "completed" if result["success"] else "failed"
\* task["result"] = result
RecordOutcome(slot, next) ==
    LET result == req[slot].result
        task == req[slot].task
    IN  /\ objs' = [objs EXCEPT ![task].status =
                                    IF result.success THEN "completed" ELSE "failed",
                                ![task].result = result]
        /\ req' = [req EXCEPT ![slot].pc = next]
        /\ UNCHANGED <<tasks, users, active_sessions, commands_executed, now, broadcasts>>

hec_record(slot) == At(slot, "socket", "record") /\ RecordOutcome(slot, "emit")
api_record(slot) == At(slot, "http", "record") /\ RecordOutcome(slot, "respond")

\* the command_result handed to emit for the submitting client
CommandResult(slot) ==
    [event |-> "command_result", to |-> req[slot].user_id,
     success |-> req[slot].result.success,
     command |-> req[slot].data.command,
     result |-> req[slot].result.result,
     type |-> req[slot].result.type,
     task_id |-> objs[req[slot].task].id]

\* emit('command_result', ...)
hec_emit_result(slot) ==
    /\ At(slot, "socket", "emit")
    /\ req' = [req EXCEPT ![slot].pc = "broadcast"]
    /\ UNCHANGED <<tasks, objs, users, active_sessions, commands_executed, now, broadcasts>>

\* the broadcast issued for successful commands only
hec_broadcast_on_success(slot) ==
    /\ At(slot, "socket", "broadcast")
    /\ broadcasts' = IF req[slot].result.success THEN broadcasts + 1 ELSE broadcasts
    /\ req' = [req EXCEPT ![slot] = Idle]
    /\ objs' = Sweep(objs, tasks, req')
    /\ UNCHANGED <<tasks, users, active_sessions, commands_executed, now>>

\* socketio.emit('status_update', ...) to all clients; the handler returns
hec_broadcast(slot) ==
    /\ At(slot, "socket", "broadcast")
    /\ broadcasts' = broadcasts + 1
    /\ Return(slot)
    /\ UNCHANGED <<tasks, users, active_sessions, commands_executed, now>>

\* the except clause of handle_execute_command: emit('command_result',
\* {..., "command": data.get('command', ''), ...}); data.get raises again
\* when data is no dict and the exception leaves the handler
hec_except(slot) ==
    /\ At(slot, "socket", "except")
    /\ Return(slot)
    /\ UNCHANGED <<tasks, users, active_sessions, commands_executed, now, broadcasts>>

\* return jsonify({"success": True, "task_id": task["id"], "result": result})
api_respond(slot) ==
    /\ At(slot, "http", "respond")
    /\ Return(slot)
    /\ UNCHANGED <<tasks, users, active_sessions, commands_executed, now, broadcasts>>

\* the except clause of api_execute: return jsonify({...}), 500
api_except(slot) ==
    /\ At(slot, "http", "except")
    /\ Return(slot)
    /\ UNCHANGED <<tasks, users, active_sessions, commands_executed, now, broadcasts>>

\* the steps of the program with the invocations drawn from the slots S
Step(S) ==
    \/ \E s \in Sids, ip \in Addrs : handle_connect(s, ip)
    \/ \E s \in Sids : handle_disconnect(s)
    \/ \E k \in S, s \in Sids, d \in Payloads : hec_receive(k, s, d)
    \/ \E k \in S, ip \in Addrs, d \in Payloads : api_receive(k, ip, d)
    \/ \E k \in S : hec_reject(k)
    \/ \E k \in S : api_reject(k)
    \/ \E k \in S : hec_add_task(k)
    \/ \E k \in S : api_add_task(k)
    \/ \E k \in S : hec_execute(k)
    \/ \E k \in S : api_execute_call(k)
    \/ \E k \in S : fetch_return(k)
    \/ \E k \in S : hec_record(k)
    \/ \E k \in S : api_record(k)
    \/ \E k \in S : hec_emit_result(k)
    \/ \E k \in S : hec_broadcast(k)
    \/ \E k \in S : hec_except(k)
    \/ \E k \in S : api_respond(k)
    \/ \E k \in S : api_except(k)

Next == Step(Serial)

Spec == Init /\ [][Next]_vars

(***************************************************************************)
(* Threads.  socketio = SocketIO(app, cors_allowed_origins="*") is given no *)
(* async_mode (the SOCKETIO_ASYNC_MODE entry of the config is not one of    *)
(* the keys Flask-SocketIO reads), so the server falls back to one OS       *)
(* thread per request and event when no green-thread library is installed.  *)
(* No handler takes a lock, so the interpreter can switch threads between   *)
(* any two reads or writes of the shared agent.  Under the thread            *)
(* specifications every slot is a thread, and add_task, handle_connect     *)
(* and handle_disconnect advance one shared read or write at a time.       *)
(***************************************************************************)
ThreadPayloads == {Dict(CmdStatus), NotDict}

\* add_task, `if len(self.tasks) >= ProductionConfig.MAX_TASKS:'
add_task_check(slot) ==
    /\ req[slot].pc = "add"
    /\ req' = [req EXCEPT ![slot].pc = IF Len(tasks) >= MAX_TASKS THEN "pop" ELSE "make"]
    /\ UNCHANGED <<tasks, objs, users, active_sessions, commands_executed, now, broadcasts>>

\* add_task, `self.tasks.pop(0)'; IndexError on a list found empty
add_task_pop(slot) ==
    /\ req[slot].pc = "pop"
    /\ IF tasks = <<>>
       THEN /\ req' = [req EXCEPT ![slot].pc = "except",
                                  ![slot].result = Raised("pop from empty list")]
            /\ UNCHANGED <<tasks, objs>>
       ELSE /\ tasks' = Tail(tasks)
            /\ req' = [req EXCEPT ![slot].pc = "make"]
            /\ objs' = Sweep(objs, tasks', req')
    /\ UNCHANGED <<users, active_sessions, commands_executed, now, broadcasts>>

\* add_task, `task_obj = {"id": len(self.tasks) + 1, ...}'
add_task_make(slot) ==
    LET task_obj == [id |-> Len(tasks) + 1,
                     command |-> req[slot].data.command,
                     status |-> "pending",
                     result |-> None]
    IN  /\ req[slot].pc = "make"
        /\ objs' = Append(objs, task_obj)
        /\ req' = [req EXCEPT ![slot].pc = "append", ![slot].task = Len(objs) + 1]
        /\ UNCHANGED <<tasks, users, active_sessions, commands_executed, now, broadcasts>>

\* add_task, `self.tasks.append(task_obj); return task_obj'
add_task_append(slot) ==
    /\ req[slot].pc = "append"
    /\ tasks' = Append(tasks, req[slot].task)
    /\ req' = [req EXCEPT ![slot].pc = "exec"]
    /\ UNCHANGED <<objs, users, active_sessions, commands_executed, now, broadcasts>>

\* a thread running handle_connect or handle_disconnect for user_id; n is
\* the value of agent.active_sessions it has read
SessionThread(pc, user_id, n) == [pc |-> pc, user_id |-> user_id, task |-> 0, n |-> n]
SessionPcs == {"c_read", "c_write", "d_read", "d_write"}
\* no other thread is serving an event of the same session
Unserved(user_id) ==
    \A k \in Slots : req[k].pc \in SessionPcs => req[k].user_id # user_id

\* handle_connect, `agent.users[user_id] = {...}', for a session id that
\* is not registered
connect_register(slot, user_id, ip) ==
    /\ Free(slot)
    /\ Unserved(user_id)
    /\ user_id \notin Keys(users)
    /\ now < MaxConnects
    /\ now' = now + 1
    /\ users' = [users EXCEPT ![user_id] =
                    [connected_at |-> now', ip |-> ip, commands |-> 0]]
    /\ req' = [req EXCEPT ![slot] = SessionThread("c_read", user_id, 0)]
    /\ UNCHANGED <<tasks, objs, active_sessions, commands_executed, broadcasts>>

\* handle_connect, `agent.active_sessions += 1': the read
connect_read(slot) ==
    /\ req[slot].pc = "c_read"
    /\ req' = [req EXCEPT ![slot].pc = "c_write", ![slot].n = active_sessions]
    /\ UNCHANGED <<tasks, objs, users, active_sessions, commands_executed, now, broadcasts>>

\* handle_connect, `agent.active_sessions += 1': the write; emit; return
connect_write(slot) ==
    /\ req[slot].pc = "c_write"
    /\ active_sessions' = req[slot].n + 1
    /\ req' = [req EXCEPT ![slot] = Idle]
    /\ UNCHANGED <<tasks, objs, users, commands_executed, now, broadcasts>>

\* handle_disconnect, `if user_id in agent.users: del agent.users[user_id]'
disconnect_unregister(slot, user_id) ==
    /\ Free(slot)
    /\ Unserved(user_id)
    /\ IF user_id \in Keys(users)
       THEN /\ users' = [users EXCEPT ![user_id] = None]
            /\ req' = [req EXCEPT ![slot] = SessionThread("d_read", user_id, 0)]
       ELSE UNCHANGED <<users, req>>
    /\ UNCHANGED <<tasks, objs, active_sessions, commands_executed, now, broadcasts>>

\* handle_disconnect, `max(0, agent.active_sessions - 1)': the read
disconnect_read(slot) ==
    /\ req[slot].pc = "d_read"
    /\ req' = [req EXCEPT ![slot].pc = "d_write", ![slot].n = active_sessions]
    /\ UNCHANGED <<tasks, objs, users, active_sessions, commands_executed, now, broadcasts>>

\* handle_disconnect, `agent.active_sessions = ...': the write; return
disconnect_write(slot) ==
    /\ req[slot].pc = "d_write"
    /\ active_sessions' = IF req[slot].n - 1 > 0 THEN req[slot].n - 1 ELSE 0
    /\ req' = [req EXCEPT ![slot] = Idle]
    /\ UNCHANGED <<tasks, objs, users, commands_executed, now, broadcasts>>

\* the threads of submitted commands
LedgerThreadNext ==
    \/ \E k \in Threads, s \in Sids, d \in ThreadPayloads : hec_receive(k, s, d)
    \/ \E k \in Threads, ip \in Addrs, d \in ThreadPayloads : api_receive(k, ip, d)
    \/ \E k \in Threads : add_task_check(k)
    \/ \E k \in Threads : add_task_pop(k)
    \/ \E k \in Threads : add_task_make(k)
    \/ \E k \in Threads : add_task_append(k)
    \/ \E k \in Threads : hec_execute(k)
    \/ \E k \in Threads : api_execute_call(k)
    \/ \E k \in Threads : hec_record(k)
    \/ \E k \in Threads : api_record(k)
    \/ \E k \in Threads : hec_emit_result(k)
    \/ \E k \in Threads : hec_broadcast(k)
    \/ \E k \in Threads : hec_except(k)
    \/ \E k \in Threads : api_respond(k)
    \/ \E k \in Threads : api_except(k)

LedgerThreadSpec == Init /\ [][LedgerThreadNext]_vars

\* the threads of connect and disconnect events
SessionThreadNext ==
    \/ \E k \in Threads, s \in Sids, ip \in Addrs : connect_register(k, s, ip)
    \/ \E k \in Threads : connect_read(k)
    \/ \E k \in Threads : connect_write(k)
    \/ \E k \in Threads, s \in Sids : disconnect_unregister(k, s)
    \/ \E k \in Threads : disconnect_read(k)
    \/ \E k \in Threads : disconnect_write(k)

SessionThreadSpec == Init /\ [][SessionThreadNext]_vars

(***************************************************************************)
(* Threads under a fair scheduler.  Every slot is a thread serving a       *)
(* command of one session, each command an outbound fetch, and there are   *)
(* more threads than the ledger has places.  A thread that can take its    *)
(* next step is eventually run, and requests.get (timeout=10) returns or   *)
(* raises; nothing obliges a client to submit.                             *)
(***************************************************************************)
LivePayloads == {Dict(CmdGeneral)}
LiveSid == "s1"
\* the commands that fill the ledger arrive one after the other, the later
\* ones whenever a thread is free
LiveAdmitted ==
    IF Len(objs) < MAX_TASKS
    THEN \A k \in Slots : req[k] = Idle
    ELSE Len(objs) + Cardinality({k \in Slots : req[k].pc \in {"add", "pop", "make"}}) < LiveAlloc

\* handle_execute_command up to the call of add_task, for a payload that
\* carries a command
hec_accept(slot, user_id, data) ==
    /\ Free(slot)
    /\ data.t = "dict" /\ Truthy(data.command)
    /\ LiveAdmitted
    /\ users' = IF user_id \in Keys(users)
                THEN [users EXCEPT ![user_id].commands = @ + 1]
                ELSE users
    /\ req' = [req EXCEPT ![slot] = Invocation("socket", user_id, data, "add", None)]
    /\ UNCHANGED <<tasks, objs, active_sessions, commands_executed, now, broadcasts>>

\* the next step of the handler running in the slot
ThreadStep(slot) ==
    \/ add_task_check(slot)
    \/ add_task_pop(slot)
    \/ add_task_make(slot)
    \/ add_task_append(slot)
    \/ hec_execute(slot)
    \/ hec_record(slot)
    \/ hec_emit_result(slot)
    \/ hec_broadcast(slot)
    \/ hec_except(slot)

LiveNext ==
    \/ \E k \in Slots, d \in LivePayloads : hec_accept(k, LiveSid, d)
    \/ \E k \in Slots : ThreadStep(k)

LiveSpec == Init /\ [][LiveNext]_vars /\ \A k \in Slots : WF_vars(ThreadStep(k))

(***************************************************************************)
(* The router on its own: agent.execute_command(text, user_id) called on   *)
(* a new agent, for every text made of a head and up to MaxExprLen         *)
(* characters after it.                                                    *)
(***************************************************************************)
S_Status == <<"S","t","a","t","u","s">>
S_calculate_bare == <<"c","a","l","c","u","l","a","t","e">>
RouterHeads == {<<>>, S_status, S_help, S_system, S_web, S_calculate,
                S_Status, S_calculate_bare}
ExprChars == {"2", "+", " ", "a", "s", "\\"}
Exprs == UNION {[1 .. n -> ExprChars] : n \in 0 .. MaxExprLen}
RouterTexts == {h \o e : h \in RouterHeads, e \in Exprs}

RouterInit ==
    /\ tasks = <<>>
    /\ objs = <<>>
    /\ users = [s \in Sids |-> None]
    /\ active_sessions = 0
    /\ commands_executed = 0
    /\ now = 0
    /\ broadcasts = 0
    /\ \E text \in RouterTexts, ip \in Addrs :
          req = [k \in Slots |->
                    IF k \in Serial
                    THEN Invocation("direct", ip, Dict(JStr(text)), "exec", None)
                    ELSE Idle]

\* result = agent.execute_command(command, user_id)
router_call(slot) == At(slot, "direct", "exec") /\ CallExecuteCommand(slot)

RouterNext == \E k \in Serial : router_call(k)

RouterSpec == RouterInit /\ [][RouterNext]_vars

(***************************************************************************)
(* Properties                                                              *)
(***************************************************************************)
Allocated == 1 .. Len(objs)
\* an object not yet collected: its entries can still be read
IsLive(r) == "status" \in DOMAIN objs[r]
Min(a, b) == IF a < b THEN a ELSE b

\* C1: every task ever given an id has an id different from every other
\* task's, ids strictly increase in submission order, and an id is not
\* given again after its task was evicted.
C1_IdsUniqueAndIncreasing ==
    \A a, b \in Allocated : a < b => objs[a].id < objs[b].id

\* C2: the ledger never holds more than MAX_TASKS tasks, however many
\* were added.
C2_LedgerWithinCapacity == Len(tasks) <= MAX_TASKS

C2_Witness == Len(objs) > MAX_TASKS /\ Len(tasks) = MAX_TASKS

\* C3: after n adds the ledger holds exactly the min(n, MAX_TASKS) most
\* recently added tasks in the order they were added: an add on a full
\* ledger evicts exactly the oldest task held, ahead of the append.
C3_LedgerHoldsMostRecent ==
    LET n == Len(objs)
        m == Min(n, MAX_TASKS)
    IN  /\ Len(tasks) = m
        /\ \A i \in 1 .. m : tasks[i] = n - m + i

C3_Witness ==
    /\ Len(objs) = MAX_TASKS + 1
    /\ tasks[1] = 2
    /\ tasks[Len(tasks)] = Len(objs)

\* C4: in every reachable state the session count reported,
\* active_sessions, equals the number of sessions in the registry.
C4_SessionCountIsRegistrySize == active_sessions = UserCount

\* a connect is the one step that reads the clock
ConnectStep == now' # now
DisconnectStep == Keys(users') # Keys(users) /\ Keys(users') \subseteq Keys(users)

\* C5: a connect for a session id that is already registered is rejected:
\* the record held for that id and the active-session count stay as they
\* were.
C5_DuplicateConnectRejected ==
    [][ConnectStep =>
          /\ \A s \in Keys(users) : users'[s] = users[s]
          /\ (Keys(users') = Keys(users) => active_sessions' = active_sessions)]_vars

\* the handler of a routed command returns: on the socket path after its
\* emit of the result, on the HTTP path with its 200 response
SocketCommandDone == \E k \in Slots : At(k, "socket", "broadcast") /\ req'[k] = Idle
HttpCommandDone == \E k \in Slots : At(k, "http", "respond") /\ req'[k] = Idle

Holds(k, r) ==
    /\ req[k].pc \in {"record", "emit", "broadcast", "respond"}
    /\ req[k].task = r
StatusFor(outcome) == IF outcome.success THEN "completed" ELSE "failed"

\* a task is pending with no result, or terminal with the outcome that
\* decides its status
C7_TaskState ==
    \A r \in Allocated : IsLive(r) =>
        \/ objs[r].status = "pending" /\ objs[r].result = None
        \/ /\ objs[r].status \in {"completed", "failed"}
           /\ objs[r].result # None
           /\ objs[r].status = StatusFor(objs[r].result)
\* a step creates tasks pending, and changes a task only from pending, by
\* the handler that holds it, to the outcome that handler got
C7_TaskStep ==
    /\ \A r \in (1 .. Len(objs')) \ Allocated :
          objs'[r].status = "pending" /\ objs'[r].result = None
    /\ \A r \in Allocated : IsLive(r) /\ "status" \in DOMAIN objs'[r] =>
          \/ objs'[r] = objs[r]
          \/ /\ objs[r].status = "pending"
             /\ \E k \in Slots : /\ Holds(k, r)
                                 /\ req[k].pc = "record"
                                 /\ objs'[r].result = req[k].result
                                 /\ objs'[r].status = StatusFor(req[k].result)
                                 /\ objs'[r].id = objs[r].id
                                 /\ objs'[r].command = objs[r].command

\* C7: a task is created pending with result None and changes once: when
\* the routing of its command has finished, status becomes completed if the
\* outcome's success is true and failed otherwise and result becomes that
\* outcome in the same step; a terminal task never changes again.
C7_TaskTransitionsOnce == [](C7_TaskState) /\ [][C7_TaskStep]_vars

C7_Witness ==
    /\ Len(tasks) = 2
    /\ objs[tasks[1]].status = "failed"
    /\ objs[tasks[1]].result.success = FALSE
    /\ objs[tasks[2]].status = "completed"
    /\ objs[tasks[2]].result.success = TRUE

\* execute_command is called by the invocation in slot k
ExecuteCall(k) == req[k].pc = "exec" /\ req'[k].pc # "exec"

\* the counter moves by one at a call of execute_command and at no other
\* step; a status command's outcome carries the value after its own call
C9_CounterStep ==
    /\ (\E k \in Slots : ExecuteCall(k)) => commands_executed' = commands_executed + 1
    /\ ~(\E k \in Slots : ExecuteCall(k)) => commands_executed' = commands_executed
    /\ \A k \in Slots : ExecuteCall(k) /\ req[k].data.command = CmdStatus =>
          /\ req'[k].pc = "record"
          /\ req'[k].result.success
          /\ req'[k].result.type = "status"
          /\ req'[k].result.result.commands_executed = commands_executed'

\* the calls of execute_command made so far: one per task created, but for
\* the invocations that have added their task and not yet made the call
ExecuteCallsMade == Len(objs) - Cardinality({k \in Slots : req[k].pc = "exec"})

\* C9: commands_executed grows by exactly one per call of execute_command,
\* ahead of the dispatch and whatever the call yields, and changes at no
\* other step, so it equals the number of calls made; a "status" command is
\* answered with type "status" and the counter's value counting that very
\* call.
C9_CounterCountsExecuteCalls ==
    [](commands_executed = ExecuteCallsMade) /\ [][C9_CounterStep]_vars

\* the second call, a status command, reports 2 after a first call that
\* ended in a caught fault
C9_Witness ==
    /\ commands_executed = 2
    /\ Len(objs) = 2
    /\ objs[1].status = "failed"
    /\ objs[1].result.type = "error"
    /\ \E k \in Slots : /\ Holds(k, 2)
                        /\ req[k].result.type = "status"
                        /\ req[k].result.result.commands_executed = 2

FaultOutcome ==
    [success |-> FALSE,
     result |-> Fmt("Error processing command: {}",
                    <<"'int' object has no attribute 'startswith'">>),
     type |-> "error"]

\* C10: no fault leaves execute_command: a handler never enters its except
\* clause out of the call, and a command whose routing raises comes back as
\* the outcome success = false, type "error" carrying the fault's message,
\* which the handler then records like any other.
C10_ExecuteCatchesFaults ==
    \A k \in Slots : req[k].pc # "idle" =>
        /\ req[k].pc = "except" => req[k].task = 0
        /\ (req[k].task # 0 /\ req[k].pc # "exec" /\ req[k].data.command.t # "str") =>
              /\ req[k].pc \in {"record", "emit", "broadcast", "respond"}
              /\ req[k].result = FaultOutcome

\* a command that raised was recorded as failed, and the next command was
\* accepted and completed
C10_Witness ==
    /\ Len(tasks) = 2
    /\ objs[tasks[1]].command = CmdNumber
    /\ objs[tasks[1]].status = "failed"
    /\ objs[tasks[1]].result = FaultOutcome
    /\ objs[tasks[2]].status = "completed"

\* add_task calls that have appended their task
Appended == Len(objs) - Cardinality({k \in Slots : req[k].pc = "append"})

\* C11: with add_task called from concurrent threads, the ids given so far
\* are 1, 2, ... with none given twice and none skipped, and the ledger is
\* never seen between an eviction and the append that follows it: its
\* length is that of the tasks appended, capped at MAX_TASKS.
C11_AddTaskAtomic ==
    /\ {objs[r].id : r \in Allocated} = 1 .. Len(objs)
    /\ Len(tasks) = Min(Appended, MAX_TASKS)

SessionsQuiescent == \A k \in Slots : req[k].pc \notin SessionPcs

\* C12: with connects and disconnects of distinct session ids served by
\* concurrent threads, once all have returned active_sessions is the number
\* of sessions registered and not unregistered since, which is the size of
\* the registry, and no reader finds active_sessions and the size of the
\* registry apart while they run.
C12_SessionCountUnderThreads ==
    /\ SessionsQuiescent => active_sessions = UserCount
    /\ active_sessions = UserCount

\* C13: from any state of the agent, a connect of a session id that is not
\* registered followed at once by the disconnect of that id leaves
\* active_sessions and the set of registered ids as they were.
C13_ConnectDisconnectRestores ==
    \A s \in Sids \ Keys(users), ip \in Addrs :
        LET after == unregistered(registered(agent, s, ip, now + 1), s)
        IN  /\ after.active_sessions = active_sessions
            /\ Keys(after.users) = Keys(users)

\* s1 connected first and is still registered; the second connect was
\* undone by a disconnect
C13_Witness ==
    /\ now = 2
    /\ Keys(users) = {"s1"}
    /\ users["s1"].connected_at = 1
    /\ active_sessions = 1

\* C14: a disconnect of a session id that is not registered returns
\* normally and changes nothing: the registry with every other session's
\* record, active_sessions, the ledger and commands_executed stay as they
\* are.
C14_DisconnectUnknownIsNoOp ==
    \A s \in Sids \ Keys(users) : unregistered(agent, s) = agent

\* there is something to lose: another session with commands counted, a
\* ledger and a counter that are not empty, and s2 not registered
C14_Witness ==
    /\ Keys(users) = {"s1"}
    /\ users["s1"].commands > 0
    /\ active_sessions = 1
    /\ Len(tasks) > 0
    /\ commands_executed > 0
    /\ \A k \in Slots : req[k] = Idle

\* handle_execute_command accepts a non-empty command sent by session s
SocketSubmit(s) ==
    \E k \in Slots : /\ req[k] = Idle
                     /\ req'[k].pc = "add"
                     /\ req'[k].path = "socket"
                     /\ req'[k].user_id = s

C15_CounterStep ==
    \A s \in Sids :
        /\ (s \in Keys(users) /\ s \in Keys(users')) =>
              /\ users'[s].commands >= users[s].commands
              /\ users'[s].commands = users[s].commands + (IF SocketSubmit(s) THEN 1 ELSE 0)
        /\ (s \notin Keys(users) /\ SocketSubmit(s)) => users' = users

\* C15: the commands counter of a registered session never decreases and
\* changes only when handle_execute_command accepts a non-empty command of
\* that session, by one; no other session's command, no HTTP request and no
\* other step changes it; a command of a session id that is not registered
\* changes no counter and registers nothing.
C15_SessionCommandsCounter == [][C15_CounterStep]_vars

\* execute_command has returned to the direct call in slot k
Routed(k) == req[k].pc = "record" /\ req[k].path = "direct"
Text(k) == req[k].data.command.v
GeneralOutcome(text) ==
    [success |-> TRUE,
     result |-> Fmt("Command '{}' processed by VALON Agent", <<text>>),
     type |-> "general"]
HasFamilyPrefix(text) ==
    StartsWith(text, S_system) \/ StartsWith(text, S_web) \/ StartsWith(text, S_calculate)

\* C16 as stated: the outcome has type "status" only for the text `status'
\* and type "help" only for the text `help'; every other text that does not
\* start with system:, web: or calculate: gets the general outcome.
C16_StatusAndHelpExact ==
    \A k \in Slots : Routed(k) =>
        /\ req[k].result.type = "status" <=> Text(k) = S_status
        /\ req[k].result.type = "help" <=> Text(k) = S_help
        /\ (~HasFamilyPrefix(Text(k)) /\ Text(k) \notin {S_status, S_help}) =>
              req[k].result = GeneralOutcome(Text(k))

\* C16 (amended): the outcome has type "status" exactly for the texts that
\* start with `status' and type "help" exactly for those that start with
\* `help'; a text that starts with none of system:, web:, calculate:,
\* status, help (case-sensitive) gets the general outcome, success = true,
\* type "general".
C16_StatusAndHelpByPrefix ==
    \A k \in Slots : Routed(k) =>
        /\ req[k].result.type = "status" <=> StartsWith(Text(k), S_status)
        /\ req[k].result.type = "help" <=> StartsWith(Text(k), S_help)
        /\ (~HasFamilyPrefix(Text(k)) /\ ~StartsWith(Text(k), S_status)
                                      /\ ~StartsWith(Text(k), S_help)) =>
              req[k].result = GeneralOutcome(Text(k))

\* `status a' was answered with the status snapshot
C16_Witness ==
    \E k \in Slots : /\ Routed(k)
                     /\ Text(k) = S_status \o <<" ", "a">>
                     /\ req[k].result.type = "status"
                     /\ req[k].result.success

\* C17: a calculate: command with nothing after the colon gets success =
\* false, type "calculation", result "No expression provided".
C17_EmptyExpressionMessage ==
    \A k \in Slots : (Routed(k) /\ Text(k) = S_calculate) =>
        req[k].result = [success |-> FALSE,
                         result |-> Str("No expression provided"),
                         type |-> "calculation"]

\* the characters the expression may be made of: digits, + - * / ( ), the
\* full stop and whitespace
Whitelist == Digits \cup {"+", "-", "*", "/", "(", ")", ".", " "}

\* C18: the expression of a calculate: command is refused with success =
\* false, "Invalid characters in expression" exactly when one of its
\* characters is outside the whitelist, and is handed to the evaluation
\* otherwise, interior whitespace included.
C18_WhitelistDecidesAcceptance ==
    \A k \in Slots : (Routed(k) /\ StartsWith(Text(k), S_calculate)) =>
        LET expression == Strip(AfterColon(Text(k)))
            refused == req[k].result = [success |-> FALSE,
                                        result |-> Str("Invalid characters in expression"),
                                        type |-> "calculation"]
        IN  refused <=> \E i \in 1 .. Len(expression) : expression[i] \notin Whitelist

\* the invocation in slot k was sent a dict whose command is missing or empty
EmptySubmission(k) ==
    /\ req[k].pc # "idle"
    /\ req[k].pc \notin SessionPcs
    /\ req[k].data.t = "dict"
    /\ ~Truthy(req[k].data.command)

\* an empty submission is at its answer, a failed outcome, and holds no task
C19_EmptyState ==
    \A k \in Slots : EmptySubmission(k) =>
        /\ req[k].pc = "reject"
        /\ req[k].task = 0
        /\ req[k].result.success = FALSE
        /\ req[k].path = "socket" => req[k].result.result = Str("No command provided")
        /\ req[k].path = "http" => /\ req[k].result.error = Str("No command provided")
                                   /\ req[k].result.code = 400
\* receiving and answering it change nothing of the agent, and the handler
\* returns from the answer
C19_EmptyStep ==
    \A k \in Slots :
        ((req[k].pc = "reject" \/ req'[k].pc = "reject") /\ req'[k] # req[k]) =>
            /\ UNCHANGED <<tasks, objs, users, active_sessions, commands_executed>>
            /\ req[k].pc = "reject" => req'[k] = Idle

\* C19: a submission whose command text is missing or empty is answered
\* with a failed outcome ("No command provided") on the socket and on the
\* HTTP path; no task is created, commands_executed and the session's
\* commands counter stay as they are, and the handler returns without
\* entering an except clause.
C19_EmptyCommandChangesNothing == [](C19_EmptyState) /\ [][C19_EmptyStep]_vars

\* a registered session with one command behind it sends an empty one
C19_Witness ==
    \E k \in Slots : /\ req[k].pc = "reject"
                     /\ req[k].path = "socket"
                     /\ req[k].user_id \in Keys(users)
                     /\ users[req[k].user_id].commands = 1
                     /\ Len(tasks) = 1
                     /\ commands_executed = 1

\* the positions of a socket command after it was accepted, in order
SocketOrder ==
    {<<"add", "exec">>, <<"exec", "record">>, <<"exec", "fetch">>, <<"fetch", "record">>,
     <<"record", "emit">>, <<"emit", "broadcast">>, <<"broadcast", "idle">>}
Pending(r) == IsLive(r) /\ objs[r].status = "pending" /\ objs[r].result = None
Terminal(r) == IsLive(r) /\ objs[r].status \in {"completed", "failed"}

\* where a command stands, its task stands: in the ledger and pending until
\* the outcome is recorded, terminal with that outcome from then on, so no
\* result is sent (emit, broadcast, respond) for a pending task
C20_OrderState ==
    \A k \in Slots :
        /\ req[k].pc \in {"exec", "fetch", "record"} =>
              /\ Pending(req[k].task)
              /\ \E i \in 1 .. Len(tasks) : tasks[i] = req[k].task
        /\ req[k].pc \in {"emit", "broadcast", "respond"} =>
              /\ Terminal(req[k].task)
              /\ objs[req[k].task].result = req[k].result
\* a socket command moves only along SocketOrder; the step into "exec" is
\* add_task, the step out of "exec" the call of execute_command, the step
\* out of "broadcast" the publish
C20_OrderStep ==
    \A k \in Slots :
        (req[k].pc \in {"add", "exec", "fetch", "record", "emit", "broadcast"}
            /\ req[k].path = "socket" /\ req'[k] # req[k]) =>
            /\ <<req[k].pc, req'[k].pc>> \in SocketOrder
            /\ req[k].pc = "add" => Len(objs') = Len(objs) + 1 /\ req'[k].task = Len(objs')
            /\ req[k].pc = "exec" => commands_executed' = commands_executed + 1
            /\ req[k].pc # "broadcast" => broadcasts' = broadcasts
            /\ req[k].pc = "broadcast" => broadcasts' = broadcasts + 1

\* C20: an accepted socket command goes through its steps in this order:
\* the task is added to the ledger pending, the command is routed, the
\* outcome is recorded on the task, the result is sent to the submitting
\* session, and last the status snapshot is sent to all sessions; on either
\* path no result is sent while its task is pending.
C20_StepsInOrder == [](C20_OrderState) /\ [][C20_OrderStep]_vars

\* a failed command is at its publish, recorded and sent
C20_Witness ==
    \E k \in Slots : /\ At(k, "socket", "broadcast")
                     /\ Terminal(req[k].task)
                     /\ objs[req[k].task].status = "failed"
                     /\ commands_executed = 1
                     /\ broadcasts = 0

\* the task object the submission in slot k created
Created(k) == req[k].pc \in {"append", "exec", "fetch", "record", "emit", "broadcast", "respond"}
InLedger(r) == \E i \in 1 .. Len(tasks) : tasks[i] = r

\* every submission holds the object it created and no two hold the same
C21_OwnTaskState ==
    \A k \in Slots : Created(k) =>
        /\ req[k].task \in Allocated
        /\ IsLive(req[k].task)
        /\ objs[req[k].task].command = req[k].data.command
        /\ \A j \in Slots \ {k} : Created(j) => req[j].task # req[k].task
\* a step that records writes the outcome on the recording submission's
\* own object and leaves every other object as it is, in the ledger or not;
\* no other step alters a task's status or result
C21_OwnTaskStep ==
    /\ \A k \in Slots : (req[k].pc = "record" /\ req'[k].pc # "record") =>
          /\ objs'[req[k].task].result = req[k].result
          /\ objs'[req[k].task].status = StatusFor(req[k].result)
    /\ \A r \in Allocated : (IsLive(r) /\ "status" \in DOMAIN objs'[r] /\ objs'[r] # objs[r]) =>
          \E k \in Slots : /\ req[k].pc = "record"
                           /\ req'[k].pc # "record"
                           /\ req[k].task = r

\* C21: in every interleaving of concurrent submissions the outcome of a
\* submission is assigned to the task object that submission's add_task
\* call returned and to no other: also when that task has meanwhile been
\* evicted from the ledger or another held task has the same id; a task in
\* the ledger is never altered by another submission's completion.
C21_OutcomeOnOwnTask == [](C21_OwnTaskState) /\ [][C21_OwnTaskStep]_vars

\* a task was recorded after a later add evicted it, while the task of
\* that later add is in the ledger, still pending
C21_Witness ==
    \E r \in Allocated :
        /\ IsLive(r)
        /\ ~InLedger(r)
        /\ objs[r].status # "pending"
        /\ \E i \in 1 .. Len(tasks) : tasks[i] > r /\ objs[tasks[i]].status = "pending"

\* no handler of a submitted command is running
NoSubmissionInFlight == \A k \in Slots : req[k] = Idle
\* submissions that have added their task and not yet called execute_command
BetweenAddAndExecute == Cardinality({k \in Slots : req[k].pc = "exec"})

\* C22 as stated: whenever no submission is in flight commands_executed
\* equals the number of tasks ever created, and commands_executed is at
\* least the length of the ledger in every state.
C22_CounterNeverBelowLedger ==
    /\ NoSubmissionInFlight => commands_executed = Len(objs)
    /\ commands_executed >= Len(tasks)

C22_CountState ==
    /\ commands_executed + BetweenAddAndExecute = Len(objs)
    /\ NoSubmissionInFlight =>
          /\ commands_executed = Len(objs)
          /\ commands_executed >= Len(tasks)
C22_CountStep ==
    /\ Len(objs') # Len(objs) =>
          /\ Len(objs') = Len(objs) + 1
          /\ \E k \in Slots : req[k].pc = "add" /\ req'[k].pc = "exec"
    /\ commands_executed' # commands_executed =>
          /\ commands_executed' = commands_executed + 1
          /\ \E k \in Slots : req[k].pc = "exec" /\ req'[k].pc \in {"record", "fetch"}
    /\ \A k \in Slots :
          /\ (req[k].pc = "add" /\ req'[k] # req[k]) =>
                req'[k].pc = "exec" /\ Len(objs') = Len(objs) + 1
          /\ (req[k].pc = "exec" /\ req'[k] # req[k]) =>
                commands_executed' = commands_executed + 1

\* C22 (amended): whenever no submission is in flight commands_executed
\* equals the number of tasks ever created, evicted ones included, and so
\* is at least the length of the ledger: every accepted submission on
\* either path creates one task and then calls execute_command once, and
\* no other step changes either number.  While a submission is between its
\* add_task and its execute_command call the counter is one short of the
\* tasks created.
C22_CounterEqualsTasksCreated == [](C22_CountState) /\ [][C22_CountStep]_vars

\* three commands done, the first evicted and still counted
C22_Witness ==
    /\ NoSubmissionInFlight
    /\ commands_executed = MAX_TASKS + 1
    /\ Len(objs) = MAX_TASKS + 1
    /\ Len(tasks) = MAX_TASKS

\* C23: under a fair scheduler, with every fetch returning or timing out,
\* a command that was submitted and is not empty reaches the point where
\* its task is terminal (completed or failed) and its result is about to be
\* sent, and from there the result is sent to the submitter (the emit is
\* done, or the HTTP response returned), whatever other submissions are
\* interleaved: no task stays pending for ever.
C23_EveryCommandCompletes ==
    \A k \in Slots :
        /\ (req[k].pc = "add") ~>
              (req[k].pc \in {"emit", "respond"} /\ Terminal(req[k].task))
        /\ (req[k].pc \in {"emit", "respond"}) ~> (req[k].pc \in {"broadcast", "idle"})
====
